---- MODULE Spec2Model ----
(***************************************************************************)
(* Model of src/src/model/model.cpp (MazeShooter): the texture loader      *)
(* readTexture, Model::loadModel / processNode / processMesh, and          *)
(* Model::draw / drawMesh, run against a recording OpenGL context, an      *)
(* importer that hands out scenes, and a PNG decoder that may fail.        *)
(***************************************************************************)
EXTENDS Integers, Sequences, FiniteSets, TLC

VARIABLES
    loaded,            \* loadModel has been called on this Model
    shaderprogram,     \* Model::shaderprogram
    scene,             \* Model::scene (the pointer the importer returned)
    sceneAlive,        \* the Assimp::Importer owning *scene still exists
    meshes,            \* Model::meshes
    loadedTextures,    \* Model::loadedTextures
    gl,                \* the OpenGL context state
    trace,             \* what the last handler did to the context (recorder)
    readTextureCalls,  \* the readTexture calls processMesh has made (recorder)
    crashed,           \* the process has died
    lastCall           \* the handler that ran last

vars == <<loaded, shaderprogram, scene, sceneAlive, meshes, loadedTextures,
          gl, trace, readTextureCalls, crashed, lastCall>>

(***************************************************************************)
(* Bounds of the inputs.                                                   *)
(***************************************************************************)
\* mesh references in one scene of the trees with one or two nodes
MaxRefs == 2
\* faces of one mesh record
MaxFaces == 2

\* a caller outside the Model calls readTexture only while the next free
\* texture name is at most this
MaxTextureName == 1

SeqUpTo(S, n) == UNION {[1..k -> S] : k \in 0..n}

RECURSIVE SumSeq(_)
SumSeq(s) == IF s = <<>> THEN 0 ELSE Head(s) + SumSeq(Tail(s))

RECURSIVE Concat(_)
Concat(ss) == IF ss = <<>> THEN <<>> ELSE Head(ss) \o Concat(Tail(ss))

(***************************************************************************)
(* The scene the importer returns.  Pointers are modelled by the value     *)
(* they point to; a mesh record carries its address so that two records    *)
(* with equal contents stay distinct.                                      *)
(***************************************************************************)
NullPtr == [null |-> TRUE]
NullScene == NullPtr
NullMesh == NullPtr
NoTexture == "AI_FAILURE"

Paths == {"a.png", "b.png"}

\* scene->mMaterials of every scene: materials 0 and 3 name the same file,
\* material 2 has no diffuse texture
Materials == << [diffuse |-> "a.png"], [diffuse |-> "b.png"],
                [diffuse |-> NoTexture], [diffuse |-> "a.png"] >>

\* aiFace::mIndices of a triangle, a line and a point
FaceSet == { <<0, 1, 2>>, <<1, 0>>, <<3>> }

\* the numbers of UV channels a mesh record may have
UVChannelCounts == {0, 1, 2}

aiMesh(addr, faces, uv, mat) ==
    [addr |-> addr, mFaces |-> faces, numUVChannels |-> uv, mMaterialIndex |-> mat]

\* scene->mMeshes of the tree scenes: two records with different texture
\* files and a null entry
TreeMeshes == << aiMesh("A", << <<0, 1, 2>> >>, 0, 0),
                 aiMesh("B", << <<1, 0>>, <<2, 1, 3>> >>, 2, 1),
                 NullMesh >>

\* two records whose materials differ and name the same file
SharedPathMeshes == << aiMesh("A", << <<0, 1, 2>> >>, 1, 0),
                       aiMesh("C", << <<3>> >>, 0, 3) >>

\* ordered trees given by the parent of node 2, 3, ...; node 1 is the root
\* and the children of a node are listed by increasing number
ParentVectors == { <<1>> }

\* a root with two children, the first of which has a child
DeepParentVector == <<1, 1, 2>>

ChildrenOf(pv, n) ==
    LET RECURSIVE Kids(_)
        Kids(i) == IF i > Len(pv) THEN <<>>
                   ELSE IF pv[i] = n THEN <<i + 1>> \o Kids(i + 1)
                   ELSE Kids(i + 1)
    IN Kids(1)

\* the node array of a tree with parent vector pv whose nodes hold the mesh
\* index lists ml[1], ml[2], ...
Nodes(pv, ml) ==
    [n \in 1..(Len(pv) + 1) |-> [mMeshes |-> ml[n], mChildren |-> ChildrenOf(pv, n)]]

\* the ways to cut a sequence into n consecutive pieces
RECURSIVE Splits(_, _)
Splits(s, n) ==
    IF n = 1 THEN {<<s>>}
    ELSE UNION { { <<SubSeq(s, 1, k)>> \o rest : rest \in Splits(SubSeq(s, k + 1, Len(s)), n - 1) }
                 : k \in 0..Len(s) }

\* the ways to share out a sequence of mesh indices over the nodes of the
\* tree pv: the root holds any number of them, every other node at most one
Shares(refs, pv) ==
    { ml \in Splits(refs, Len(pv) + 1) : \A n \in 2..Len(ml) : Len(ml[n]) <= 1 }

\* the scenes over the mesh array ms whose tree is one of pvs and whose nodes
\* share out up to MaxRefs mesh indices
ScenesOver(ms, pvs) ==
    { [mMeshes |-> ms, mMaterials |-> Materials, mRootNode |-> 1,
       nodes |-> Nodes(pv, ml)] :
        <<pv, ml>> \in UNION { { <<pv, ml>> : ml \in UNION { Shares(refs, pv) :
                                     refs \in SeqUpTo(0..(Len(ms) - 1), MaxRefs) } }
                               : pv \in pvs } }

\* the scenes over the deeper tree: the root and the two leaves hold one mesh
\* index each, the inner node none
DeepScenes ==
    { [mMeshes |-> TreeMeshes, mMaterials |-> Materials, mRootNode |-> 1,
       nodes |-> Nodes(DeepParentVector, << <<r>>, <<>>, <<l2>>, <<l1>> >>)] :
        r \in 0..(Len(TreeMeshes) - 1), l1 \in 0..(Len(TreeMeshes) - 1),
        l2 \in 0..(Len(TreeMeshes) - 1) }

TreeScenes ==
    ScenesOver(TreeMeshes, ParentVectors) \cup DeepScenes
    \cup ScenesOver(SharedPathMeshes, {<<>>})

\* scenes of one node and one mesh record without a texture, the record
\* drawn from all shapes
MeshScenes ==
    { [mMeshes |-> << aiMesh("R", faces, uv, 2) >>, mMaterials |-> Materials,
       mRootNode |-> 1, nodes |-> Nodes(<<>>, << <<0>> >>)] :
        faces \in SeqUpTo(FaceSet, MaxFaces), uv \in UVChannelCounts }

\* scenes without any mesh
EmptyScenes ==
    { [mMeshes |-> <<>>, mMaterials |-> Materials, mRootNode |-> 1,
       nodes |-> Nodes(pv, [n \in 1..(Len(pv) + 1) |-> <<>>])] : pv \in {<<>>, <<1>>} }

Scenes == {NullScene} \cup EmptyScenes \cup TreeScenes \cup MeshScenes

(***************************************************************************)
(* The shader program (shaderprogram.h): attribute and uniform lookup by   *)
(* name, -1 for a name the program does not declare.  The program          *)
(* declares the names of one UV channel and one texture unit.              *)
(***************************************************************************)
to_string(i) == <<"0", "1", "2", "3", "4", "5", "6", "7", "8", "9">>[i + 1]

ShaderAttrib(name) ==
    CASE name = "vertex" -> 0
      [] name = "normal" -> 1
      [] name = "texCoord0" -> 2
      [] OTHER -> -1

ShaderUniform(name) ==
    CASE name = "M" -> 0
      [] name = "textureMap0" -> 1
      [] OTHER -> -1

\* the ShaderProgram handed to loadModel
SP == [program |-> "sp"]

(***************************************************************************)
(* The OpenGL context: the calls the code makes, as state transformers.    *)
(***************************************************************************)
\* attribute indices the context accepts (below GL_MAX_VERTEX_ATTRIBS); a
\* GLint of -1 passed as the GLuint index of a call wraps to a value above
\* them, and the call then fails with GL_INVALID_VALUE and changes nothing
VertexAttribs == 0..15

DefaultTexParams ==
    [GL_TEXTURE_WRAP_S |-> "GL_REPEAT", GL_TEXTURE_WRAP_T |-> "GL_REPEAT",
     GL_TEXTURE_MIN_FILTER |-> "GL_NEAREST_MIPMAP_LINEAR",
     GL_TEXTURE_MAG_FILTER |-> "GL_LINEAR", image |-> "none"]

GLInit ==
    [activeTexture |-> 0,
     boundTexture2D |-> [u \in {0} |-> 0],
     texParams |-> [t \in {0} |-> DefaultTexParams],
     nextTextureName |-> 1,
     enabledAttribs |-> {},
     attribPointer |-> [i \in {} |-> NullPtr],
     uniforms |-> [l \in {} |-> 0]]

BoundTexture(g) == g.boundTexture2D[g.activeTexture]

glActiveTexture(g, unit) ==
    [g EXCEPT !.activeTexture = unit,
              !.boundTexture2D = IF unit \in DOMAIN @ THEN @ ELSE (unit :> 0) @@ @]

glGenTextures(g) == [g EXCEPT !.nextTextureName = @ + 1]

glBindTexture(g, tex) ==
    [g EXCEPT !.boundTexture2D[g.activeTexture] = tex,
              !.texParams = IF tex \in DOMAIN @ THEN @ ELSE (tex :> DefaultTexParams) @@ @]

glTexImage2D(g, image) == [g EXCEPT !.texParams[BoundTexture(g)].image = image]

glTexParameteri(g, pname, param) == [g EXCEPT !.texParams[BoundTexture(g)][pname] = param]

glEnableVertexAttribArray(g, index) ==
    IF index \in VertexAttribs THEN [g EXCEPT !.enabledAttribs = @ \cup {index}] ELSE g

glDisableVertexAttribArray(g, index) ==
    IF index \in VertexAttribs THEN [g EXCEPT !.enabledAttribs = @ \ {index}] ELSE g

glVertexAttribPointer(g, index, size, pointer) ==
    IF index \in VertexAttribs
    THEN [g EXCEPT !.attribPointer = (index :> [size |-> size, pointer |-> pointer]) @@ @]
    ELSE g

glUniform(g, location, value) ==
    IF location = -1 THEN g ELSE [g EXCEPT !.uniforms = (location :> value) @@ @]

(***************************************************************************)
(* Loading.  The operators work on the record m of the Model's fields, the *)
(* context and the recorders; m.undecodable is the set of files the PNG    *)
(* decoder rejects.                                                        *)
(***************************************************************************)
\* readTexture: the handle returned and the context afterwards
readTexture(g, filename, undecodable) ==
    LET g1 == glActiveTexture(g, 0)
        error == filename \in undecodable
    IN IF error THEN [tex |-> 0, gl |-> g1, error |-> TRUE]
       ELSE LET tex == g1.nextTextureName
                g2 == glGenTextures(g1)
                g3 == glBindTexture(g2, tex)
                g4 == glTexImage2D(g3, filename)
                g5 == glTexParameteri(g4, "GL_TEXTURE_MIN_FILTER", "GL_LINEAR")
                g6 == glTexParameteri(g5, "GL_TEXTURE_MAG_FILTER", "GL_LINEAR")
            IN [tex |-> tex, gl |-> g6, error |-> FALSE]

\* faulty variant of PushIndices: puts each index in front of the sequence
RECURSIVE PushIndices_prepend(_, _, _)
PushIndices_prepend(face, j, indices) ==
    IF j > Len(face) THEN indices
    ELSE PushIndices_prepend(face, j + 1, << face[j] >> \o indices)

\* the inner loop of processMesh over one face
RECURSIVE PushIndices(_, _, _)
PushIndices(face, j, indices) ==
    IF j > Len(face) THEN indices
    ELSE PushIndices(face, j + 1, Append(indices, face[j]))

\* the outer loop of processMesh over the faces
RECURSIVE PushFaces(_, _, _)
PushFaces(faces, i, indices) ==
    IF i > Len(faces) THEN indices
    ELSE PushFaces(faces, i + 1, PushIndices(faces[i], 1, indices))

\* the loop of processMesh over the UV channels
RECURSIVE PushTexCoordNames(_, _, _)
PushTexCoordNames(mesh, i, texCoordNames) ==
    IF i >= mesh.numUVChannels THEN texCoordNames
    ELSE PushTexCoordNames(mesh, i + 1,
             Append(texCoordNames, ShaderAttrib("texCoord" \o to_string(i))))

\* faulty variant of ResolveTexture: reads the file without asking the cache
ResolveTexture_noCache(m, mesh, scn) ==
    LET material == scn.mMaterials[mesh.mMaterialIndex + 1]
        texturePath == material.diffuse
    IN IF material.diffuse # NoTexture
       THEN LET r == readTexture(m.gl, texturePath, m.undecodable)
            IN [m |-> [m EXCEPT !.gl = r.gl,
                                !.loadedTextures = (texturePath :> r.tex) @@ @,
                                !.readTextureCalls =
                                    Append(@, [filename |-> texturePath,
                                               error |-> r.error, tex |-> r.tex])],
                meshTextures |-> << r.tex >>]
       ELSE [m |-> m, meshTextures |-> <<>>]

\* the diffuse texture of the mesh's material, through the cache
ResolveTexture(m, mesh, scn) ==
    LET material == scn.mMaterials[mesh.mMaterialIndex + 1]
        texturePath == material.diffuse
    IN IF material.diffuse # NoTexture
       THEN IF texturePath \in DOMAIN m.loadedTextures
            THEN [m |-> m, meshTextures |-> << m.loadedTextures[texturePath] >>]
            ELSE LET r == readTexture(m.gl, texturePath, m.undecodable)
                 IN [m |-> [m EXCEPT !.gl = r.gl,
                                     !.loadedTextures = (texturePath :> r.tex) @@ @,
                                     !.readTextureCalls =
                                         Append(@, [filename |-> texturePath,
                                                    error |-> r.error, tex |-> r.tex])],
                     meshTextures |-> << r.tex >>]
       ELSE [m |-> m, meshTextures |-> <<>>]

\* faulty variant of processMesh: gives up on a mesh whose texture is 0
processMesh_dropOnError(m, mesh, scn) ==
    IF mesh = NullMesh THEN m
    ELSE LET indices == PushFaces(mesh.mFaces, 1, <<>>)
             texCoordNames == PushTexCoordNames(mesh, 0, <<>>)
             t == ResolveTexture(m, mesh, scn)
             meshData == [mesh |-> mesh, indices |-> indices,
                          texCoordsAttributes |-> texCoordNames,
                          meshTextures |-> t.meshTextures]
         IN IF t.meshTextures = <<0>> THEN t.m
            ELSE [t.m EXCEPT !.meshes = Append(@, meshData)]

processMesh(m, mesh, scn) ==
    IF mesh = NullMesh THEN m
    ELSE LET indices == PushFaces(mesh.mFaces, 1, <<>>)
             texCoordNames == PushTexCoordNames(mesh, 0, <<>>)
             t == ResolveTexture(m, mesh, scn)
             meshData == [mesh |-> mesh, indices |-> indices,
                          texCoordsAttributes |-> texCoordNames,
                          meshTextures |-> t.meshTextures]
         IN [t.m EXCEPT !.meshes = Append(@, meshData)]

RECURSIVE processNode(_, _, _)

\* the first loop of processNode, from the i-th mesh index of the node on
RECURSIVE ProcessNodeMeshes(_, _, _, _)
ProcessNodeMeshes(m, node, scn, i) ==
    IF i > Len(scn.nodes[node].mMeshes) THEN m
    ELSE ProcessNodeMeshes(
             processMesh(m, scn.mMeshes[scn.nodes[node].mMeshes[i] + 1], scn),
             node, scn, i + 1)

\* the second loop of processNode, from the i-th child on
RECURSIVE ProcessNodeChildren(_, _, _, _)
ProcessNodeChildren(m, node, scn, i) ==
    IF i > Len(scn.nodes[node].mChildren) THEN m
    ELSE ProcessNodeChildren(processNode(m, scn.nodes[node].mChildren[i], scn),
                             node, scn, i + 1)

\* faulty variant of processNode: does not descend into the children
processNode_ownOnly(m, node, scn) == ProcessNodeMeshes(m, node, scn, 1)

\* faulty variant of processNode: descends before it takes the node's meshes
processNode_childrenFirst(m, node, scn) ==
    ProcessNodeMeshes(ProcessNodeChildren(m, node, scn, 1), node, scn, 1)

processNode(m, node, scn) ==
    ProcessNodeChildren(ProcessNodeMeshes(m, node, scn, 1), node, scn, 1)

\* loadModel; the importer is a local of the call and takes the scene with
\* it when the call returns
loadModel(m, importResult, sp) ==
    LET m1 == [m EXCEPT !.shaderprogram = sp, !.scene = importResult,
                        !.sceneAlive = importResult # NullScene]
        m2 == IF importResult = NullScene THEN m1
              ELSE IF Len(importResult.mMeshes) = 0 THEN m1
              ELSE processNode(m1, importResult.mRootNode, importResult)
    IN [m2 EXCEPT !.sceneAlive = FALSE]

(***************************************************************************)
(* Drawing.  The operators work on the record c of the context, the        *)
(* recorder and the fields of the Model that drawing reads.  A Mesh keeps  *)
(* the aiMesh pointer it was built from.  Once the importer is gone the    *)
(* record and its vertex arrays are freed memory: a read through the       *)
(* pointer yields some value or ends the process, and glDrawElements,      *)
(* which reads the vertices through the pointers glVertexAttribPointer     *)
(* was given, returns or ends the process.  The steps of one drawMesh call *)
(* that touch the freed memory are numbered in program order:              *)
(*   1                 the read of mVertices                               *)
(*   2 .. n + 1        the reads of mTextureCoords[0], n the number of     *)
(*                     texture-coordinate attributes of the Mesh           *)
(*   n + 2             the read of mNormals                                *)
(*   n + 3             glDrawElements                                      *)
(* and the step a call ends at is its argument crash (0: at none).         *)
(***************************************************************************)
Matrices == {"M"}

NormalsStep(mesh) == Len(mesh.texCoordsAttributes) + 2

DrawStep(mesh) == Len(mesh.texCoordsAttributes) + 3

\* the steps at which a drawMesh call on mesh can end the process:
\* glDrawElements reads vertices only when there is an index to draw
CrashPoints(alive, mesh) ==
    IF alive \/ mesh = NullPtr THEN {}
    ELSE (1..NormalsStep(mesh)) \cup
         (IF Len(mesh.indices) > 0 THEN {DrawStep(mesh)} ELSE {})

\* the pointer read from field `field` of *mesh->mesh
Deref(c, mesh, field) ==
    [addr |-> mesh.mesh.addr, field |-> field, dangling |-> ~c.sceneAlive]

\* the recorder notes every event together with the Mesh being drawn
Record(c, event) == [c EXCEPT !.trace = Append(@, [call |-> c.mesh] @@ event)]

RecordDeref(c, mesh, field) ==
    Record(c, [ev |-> "deref", addr |-> mesh.mesh.addr, field |-> field,
               alive |-> c.sceneAlive])

\* the state a drawMesh call returns in
RecordReturn(c) ==
    Record(c, [ev |-> "return", enabled |-> c.gl.enabledAttribs,
               wrapS |-> c.gl.texParams[BoundTexture(c.gl)].GL_TEXTURE_WRAP_S,
               wrapT |-> c.gl.texParams[BoundTexture(c.gl)].GL_TEXTURE_WRAP_T])

\* faulty variant of TexCoordLoop: leaves the attributes enabled
RECURSIVE TexCoordLoop_keepEnabled(_, _, _, _)
TexCoordLoop_keepEnabled(c, mesh, i, crash) ==
    IF i >= Len(mesh.texCoordsAttributes) THEN c
    ELSE LET attr == mesh.texCoordsAttributes[i + 1]
             g1 == glEnableVertexAttribArray(c.gl, attr)
             c1 == RecordDeref([c EXCEPT !.gl = g1], mesh, "mTextureCoords[0]")
         IN IF crash = i + 2 THEN [c1 EXCEPT !.crashed = TRUE]
            ELSE
            LET g2 == glVertexAttribPointer(g1, attr, 2, Deref(c, mesh, "mTextureCoords[0]"))
            IN TexCoordLoop_keepEnabled([c1 EXCEPT !.gl = g2], mesh, i + 1, crash)

\* the loop of drawMesh over the texture-coordinate attributes
RECURSIVE TexCoordLoop(_, _, _, _)
TexCoordLoop(c, mesh, i, crash) ==
    IF i >= Len(mesh.texCoordsAttributes) THEN c
    ELSE LET attr == mesh.texCoordsAttributes[i + 1]
             g1 == glEnableVertexAttribArray(c.gl, attr)
             c1 == RecordDeref([c EXCEPT !.gl = g1], mesh, "mTextureCoords[0]")
         IN IF crash = i + 2 THEN [c1 EXCEPT !.crashed = TRUE]
            ELSE
            LET g2 == glVertexAttribPointer(g1, attr, 2, Deref(c, mesh, "mTextureCoords[0]"))
                g3 == glDisableVertexAttribArray(g2, attr)
            IN TexCoordLoop([c1 EXCEPT !.gl = g3], mesh, i + 1, crash)

\* the loop of drawMesh over the mesh's textures
RECURSIVE TextureLoop(_, _, _)
TextureLoop(g, mesh, i) ==
    IF i >= Len(mesh.meshTextures) THEN g
    ELSE LET g1 == glActiveTexture(g, i)
             g2 == glBindTexture(g1, mesh.meshTextures[i + 1])
             g3 == glUniform(g2, ShaderUniform("textureMap" \o to_string(i)), i)
         IN TextureLoop(g3, mesh, i + 1)

\* the call is issued with the attribute state of the context; it reads the
\* vertices of the enabled attributes through their pointers, and when they
\* are freed memory it may not return (crash)
glDrawElements(c, mode, count, indices, crash) ==
    LET c1 == Record(c, [ev |-> "glDrawElements", mode |-> mode, count |-> count,
                         indices |-> indices, enabled |-> c.gl.enabledAttribs,
                         pointers |-> c.gl.attribPointer])
    IN IF crash THEN [c1 EXCEPT !.crashed = TRUE] ELSE c1

\* drawMesh on a Mesh of the Model, or on NullPtr
drawMesh(c, mesh, M, crash) ==
    LET g1 == glTexParameteri(c.gl, "GL_TEXTURE_WRAP_S", "GL_CLAMP_TO_EDGE")
        g2 == glTexParameteri(g1, "GL_TEXTURE_WRAP_T", "GL_CLAMP_TO_EDGE")
    IN IF mesh = NullPtr THEN RecordReturn([c EXCEPT !.gl = g2, !.mesh = mesh])
       ELSE
       LET g3 == glTexParameteri(g2, "GL_TEXTURE_WRAP_S", "GL_REPEAT")
           g4 == glTexParameteri(g3, "GL_TEXTURE_WRAP_T", "GL_REPEAT")
           g5 == glUniform(g4, ShaderUniform("M"), M)
           g6 == glEnableVertexAttribArray(g5, ShaderAttrib("vertex"))
           c6 == RecordDeref([c EXCEPT !.gl = g6, !.mesh = mesh], mesh, "mVertices")
       IN IF crash = 1 THEN [c6 EXCEPT !.crashed = TRUE]
          ELSE
          LET g7 == glVertexAttribPointer(c6.gl, ShaderAttrib("vertex"), 3,
                                          Deref(c, mesh, "mVertices"))
              c8 == TexCoordLoop([c6 EXCEPT !.gl = g7], mesh, 0, crash)
          IN IF c8.crashed THEN c8
             ELSE
             LET g9 == TextureLoop(c8.gl, mesh, 0)
                 g10 == glEnableVertexAttribArray(g9, ShaderAttrib("normal"))
                 c10 == RecordDeref([c8 EXCEPT !.gl = g10], mesh, "mNormals")
             IN IF crash = NormalsStep(mesh) THEN [c10 EXCEPT !.crashed = TRUE]
                ELSE
                LET g11 == glVertexAttribPointer(g10, ShaderAttrib("normal"), 3,
                                                 Deref(c, mesh, "mNormals"))
                    c12 == glDrawElements([c10 EXCEPT !.gl = g11], "GL_TRIANGLES",
                                          Len(mesh.indices), mesh.indices,
                                          crash = DrawStep(mesh))
                IN IF c12.crashed THEN c12
                   ELSE
                   LET g13 == glDisableVertexAttribArray(c12.gl, ShaderAttrib("vertex"))
                       g14 == glDisableVertexAttribArray(g13, ShaderAttrib("normal"))
                   IN RecordReturn([c12 EXCEPT !.gl = g14])

\* faulty variant of DrawLoop: runs one step past the end of the mesh list
\* and draws whatever Mesh lies there
RECURSIVE DrawLoop_offByOne(_, _, _, _, _, _)
DrawLoop_offByOne(c, ms, i, M, crashAt, crash) ==
    IF i > Len(ms) + 1 \/ c.crashed THEN c
    ELSE DrawLoop_offByOne(
             drawMesh(c, IF i <= Len(ms) THEN ms[i]
                         ELSE [mesh |-> [addr |-> "?"], indices |-> <<>>,
                               texCoordsAttributes |-> <<>>, meshTextures |-> <<>>],
                      M, IF i = crashAt THEN crash ELSE 0),
             ms, i + 1, M, crashAt, crash)

\* the loop of draw from the i-th Mesh on; the drawMesh call on the
\* crashAt-th Mesh ends the process at its step crash (crashAt = 0: none does)
RECURSIVE DrawLoop(_, _, _, _, _, _)
DrawLoop(c, ms, i, M, crashAt, crash) ==
    IF i > Len(ms) \/ c.crashed THEN c
    ELSE DrawLoop(drawMesh(c, ms[i], M, IF i = crashAt THEN crash ELSE 0),
                  ms, i + 1, M, crashAt, crash)

draw(c, ms, M, crashAt, crash) == DrawLoop(c, ms, 1, M, crashAt, crash)

(***************************************************************************)
(* The state machine.                                                      *)
(***************************************************************************)
NoCall == [op |-> "none"]

Init ==
    /\ loaded = FALSE
    /\ shaderprogram = NullPtr
    /\ scene = NullScene
    /\ sceneAlive = FALSE
    /\ meshes = <<>>
    /\ loadedTextures = [p \in {} |-> 0]
    /\ gl = GLInit
    /\ trace = <<>>
    /\ readTextureCalls = <<>>
    /\ crashed = FALSE
    /\ lastCall = NoCall

\* a Model is created by one load call (spec.md, section 3)
CanLoad == ~loaded

\* loadModel(pFile, sp): the importer returns any of the scenes, the decoder
\* rejects any set of the texture files
LoadModel ==
    /\ ~crashed
    /\ CanLoad
    /\ \E importResult \in Scenes, undecodable \in SUBSET Paths :
          LET m == loadModel([shaderprogram |-> shaderprogram, scene |-> scene,
                              sceneAlive |-> sceneAlive, meshes |-> meshes,
                              loadedTextures |-> loadedTextures, gl |-> gl,
                              readTextureCalls |-> readTextureCalls,
                              undecodable |-> undecodable], importResult, SP)
          IN /\ shaderprogram' = m.shaderprogram
             /\ scene' = m.scene
             /\ sceneAlive' = m.sceneAlive
             /\ meshes' = m.meshes
             /\ loadedTextures' = m.loadedTextures
             /\ gl' = m.gl
             /\ readTextureCalls' = m.readTextureCalls
    /\ loaded' = TRUE
    /\ trace' = <<>>
    /\ lastCall' = [op |-> "loadModel"]
    /\ UNCHANGED crashed

\* drawing follows the load (spec.md, section 2)
CanDraw == loaded

DrawContext ==
    [gl |-> gl, trace |-> <<>>, crashed |-> FALSE, sceneAlive |-> sceneAlive,
     mesh |-> NullPtr]

\* the ways a draw call over ms can end: <<0, 0>> when every drawMesh call
\* returns, <<i, k>> when the call on the i-th Mesh ends the process at step k
DrawEndings(alive, ms) ==
    {<<0, 0>>} \cup
    UNION { { <<i, k>> : k \in CrashPoints(alive, ms[i]) } : i \in 1..Len(ms) }

\* draw(M)
Draw ==
    /\ ~crashed
    /\ CanDraw
    /\ \E M \in Matrices, ending \in DrawEndings(sceneAlive, meshes) :
          LET c == draw(DrawContext, meshes, M, ending[1], ending[2])
          IN /\ gl' = c.gl
             /\ trace' = c.trace
             /\ crashed' = c.crashed
    /\ lastCall' = [op |-> "draw"]
    /\ UNCHANGED <<loaded, shaderprogram, scene, sceneAlive, meshes, loadedTextures,
                   readTextureCalls>>

\* drawMesh(mesh, M), called with a pointer to one of the Model's meshes or
\* with a null pointer
DrawMesh ==
    /\ ~crashed
    /\ CanDraw
    /\ \E mesh \in {NullPtr} \cup {meshes[i] : i \in 1..Len(meshes)}, M \in Matrices :
          \E crash \in {0} \cup CrashPoints(sceneAlive, mesh) :
             /\ LET c == drawMesh(DrawContext, mesh, M, crash)
                IN /\ gl' = c.gl
                   /\ trace' = c.trace
                   /\ crashed' = c.crashed
             /\ lastCall' = [op |-> "drawMesh", null |-> (mesh = NullPtr)]
    /\ UNCHANGED <<loaded, shaderprogram, scene, sceneAlive, meshes, loadedTextures,
                   readTextureCalls>>

\* readTexture(filename), called from outside the Model: the function has
\* external linkage.  The file decodes or not; the Model is left alone.
ReadTexture ==
    /\ ~crashed
    /\ gl.nextTextureName <= MaxTextureName
    /\ \E filename \in Paths, error \in BOOLEAN :
          gl' = readTexture(gl, filename, IF error THEN {filename} ELSE {}).gl
    /\ UNCHANGED <<loaded, shaderprogram, scene, sceneAlive, meshes, loadedTextures,
                   trace, readTextureCalls, crashed, lastCall>>

Next == LoadModel \/ Draw \/ DrawMesh \/ ReadTexture

Spec == Init /\ [][Next]_vars

(***************************************************************************)
(* Vocabulary of the properties.                                           *)
(***************************************************************************)
Range(f) == {f[x] : x \in DOMAIN f}

LoadFailed == loaded /\ (scene = NullScene \/ Len(scene.mMeshes) = 0)

LoadSucceeded == loaded /\ scene # NullScene /\ Len(scene.mMeshes) > 0

\* the mesh records a node references, in the order the node lists them
NodeRefs(scn, n) ==
    [i \in 1..Len(scn.nodes[n].mMeshes) |-> scn.mMeshes[scn.nodes[n].mMeshes[i] + 1]]

\* the mesh references of the subtree of n: the node's own before those of
\* its children, the children in the scene's order
RECURSIVE PreOrderRefs(_, _)
PreOrderRefs(scn, n) ==
    NodeRefs(scn, n) \o
    Concat([i \in 1..Len(scn.nodes[n].mChildren) |->
               PreOrderRefs(scn, scn.nodes[n].mChildren[i])])

NonNull(refs) == SelectSeq(refs, LAMBDA r : r # NullMesh)

\* the sum of mNumMeshes over the nodes of the scene
RECURSIVE SumNumMeshes(_, _)
SumNumMeshes(scn, ns) ==
    IF ns = {} THEN 0
    ELSE LET n == CHOOSE x \in ns : TRUE
         IN Len(scn.nodes[n].mMeshes) + SumNumMeshes(scn, ns \ {n})

\* the same sum over the references whose mesh record is not null
RECURSIVE SumNonNullMeshes(_, _)
SumNonNullMeshes(scn, ns) ==
    IF ns = {} THEN 0
    ELSE LET n == CHOOSE x \in ns : TRUE
         IN Len(NonNull(NodeRefs(scn, n))) + SumNonNullMeshes(scn, ns \ {n})

\* the diffuse texture path the material of a mesh record declares
PathOf(rec) == scene.mMaterials[rec.mMaterialIndex + 1].diffuse

MeshesWithPath(p) == {i \in 1..Len(meshes) : PathOf(meshes[i].mesh) = p}

ReadsOf(p) == {k \in 1..Len(readTextureCalls) : readTextureCalls[k].filename = p}

FailedPaths == {readTextureCalls[k].filename :
                   k \in {j \in 1..Len(readTextureCalls) : readTextureCalls[j].error}}

Min(S) == CHOOSE x \in S : \A y \in S : x <= y

DrawEvents == SelectSeq(trace, LAMBDA e : e.ev = "glDrawElements")

ReturnEvents == SelectSeq(trace, LAMBDA e : e.ev = "return")

\* index in the concatenated index sequence before the first index of face i
Offset(faces, i) == SumSeq([k \in 1..(i - 1) |-> Len(faces[k])])

(***************************************************************************)
(* Properties.                                                             *)
(***************************************************************************)

\* C1: readTexture is called exactly once for every diffuse texture path a
\* mesh of the Model declares (and never for another path), also when the
\* decode failed; every mesh declaring the path holds as its one handle the
\* handle of the first such mesh, which is the value readTexture returned
\* and loadedTextures keeps for the path.
C1_OneReadPerPath ==
    \A p \in Paths :
        /\ Cardinality(ReadsOf(p)) = IF MeshesWithPath(p) = {} THEN 0 ELSE 1
        /\ (p \in DOMAIN loadedTextures) <=> (MeshesWithPath(p) # {})
        /\ MeshesWithPath(p) # {} =>
              LET first == meshes[Min(MeshesWithPath(p))]
              IN /\ \A i \in MeshesWithPath(p) : meshes[i].meshTextures = first.meshTextures
                 /\ first.meshTextures = << loadedTextures[p] >>
                 /\ \A k \in ReadsOf(p) : readTextureCalls[k].tex = loadedTextures[p]

\* two meshes built from records with different materials share a path, the
\* decode of which failed
C1_Witness ==
    \E i, j \in 1..Len(meshes) :
        /\ i < j
        /\ meshes[i].mesh.mMaterialIndex # meshes[j].mesh.mMaterialIndex
        /\ PathOf(meshes[i].mesh) = PathOf(meshes[j].mesh)
        /\ PathOf(meshes[i].mesh) \in FailedPaths

\* C2: after a loadModel call for which the importer returned a null scene
\* or a scene without meshes, the mesh list is empty, and a draw that
\* follows issues no indexed draw call.
C2_FailedLoadLeavesModelEmpty ==
    LoadFailed =>
        /\ meshes = <<>>
        /\ lastCall.op = "draw" => DrawEvents = <<>> /\ ~crashed

\* a draw after the load of a scene that has nodes but no mesh
C2_Witness ==
    /\ LoadFailed
    /\ scene # NullScene
    /\ Len(scene.nodes) = 2
    /\ lastCall.op = "draw"

\* C3 as claimed: after the load of a scene with at least one mesh, the
\* number of Mesh entities is the sum of mNumMeshes over the nodes.
C3_CountIsSumOfNumMeshes ==
    LoadSucceeded => Len(meshes) = SumNumMeshes(scene, DOMAIN scene.nodes)

\* C3 amended: after the load of a scene with at least one mesh, the number
\* of Mesh entities is the number of node mesh references whose mesh record
\* is not null; each of them yields one Mesh entity, also when several
\* nodes reference the same record.
C3_CountIsNonNullRefs ==
    LoadSucceeded => Len(meshes) = SumNonNullMeshes(scene, DOMAIN scene.nodes)

\* two nodes reference the same record, a third reference is to a null record
C3_Witness ==
    /\ LoadSucceeded
    /\ Len(meshes) = 2
    /\ meshes[1].mesh = meshes[2].mesh
    /\ SumNumMeshes(scene, DOMAIN scene.nodes) = 3
    /\ \E n1, n2 \in DOMAIN scene.nodes :
          /\ n1 # n2
          /\ \E r \in Range(NodeRefs(scene, n1)) \cap Range(NodeRefs(scene, n2)) :
                r # NullMesh

\* the first reference, in traversal order, to a mesh whose texture file
\* failed to decode, and the Mesh entity built from it
FirstFailedRef == Min({k \in 1..Len(PreOrderRefs(scene, scene.mRootNode)) :
                         LET r == PreOrderRefs(scene, scene.mRootNode)[k]
                         IN r # NullMesh /\ PathOf(r) \in FailedPaths})

FirstFailedMesh == Min({i \in 1..Len(meshes) : PathOf(meshes[i].mesh) \in FailedPaths})

FailedMeshesHoldZero ==
    /\ \E i \in 1..Len(meshes) : PathOf(meshes[i].mesh) \in FailedPaths
    /\ \A i \in 1..Len(meshes) :
          PathOf(meshes[i].mesh) \in FailedPaths => meshes[i].meshTextures = <<0>>

\* C4 as claimed: when a texture file fails to decode during loadModel, the
\* mesh that referenced it is in the Model with the one handle 0, and every
\* mesh reference later in the traversal has been added.
C4_EveryLaterRefAdded ==
    (LoadSucceeded /\ FailedPaths # {}) =>
        /\ FailedMeshesHoldZero
        /\ Len(meshes) - FirstFailedMesh =
               Len(PreOrderRefs(scene, scene.mRootNode)) - FirstFailedRef

\* C4 amended: when a texture file fails to decode during loadModel, the
\* mesh that referenced it is in the Model with the one handle 0, and every
\* later mesh reference whose mesh record is not null has been added, in
\* traversal order.
C4_EveryLaterNonNullRefAdded ==
    (LoadSucceeded /\ FailedPaths # {}) =>
        /\ FailedMeshesHoldZero
        /\ LET refs == PreOrderRefs(scene, scene.mRootNode)
               later == SubSeq(meshes, FirstFailedMesh + 1, Len(meshes))
           IN [i \in 1..Len(later) |-> later[i].mesh] =
                  NonNull(SubSeq(refs, FirstFailedRef + 1, Len(refs)))

\* the first reference fails to decode; a null record and a mesh with a
\* texture that decodes follow it
C4_Witness ==
    /\ LoadSucceeded
    /\ FailedPaths # {}
    /\ FirstFailedRef = 1
    /\ Len(PreOrderRefs(scene, scene.mRootNode)) = 3
    /\ PreOrderRefs(scene, scene.mRootNode)[2] = NullMesh
    /\ Len(meshes) = 2
    /\ meshes[1].meshTextures = <<0>>
    /\ meshes[2].meshTextures # <<0>>

\* C5: a draw call issues one indexed triangle-list draw call per Mesh of
\* the Model, in the order of the mesh list, each over the index sequence
\* of its Mesh; none on an empty Model.
C5_OneDrawCallPerMesh ==
    lastCall.op = "draw" =>
        /\ Len(DrawEvents) = Len(meshes)
        /\ \A i \in 1..Len(DrawEvents) :
              /\ i <= Len(meshes)
              /\ DrawEvents[i].mode = "GL_TRIANGLES"
              /\ DrawEvents[i].indices = meshes[i].indices
              /\ DrawEvents[i].count = Len(meshes[i].indices)

\* C6: every read through a Mesh's pointer to raw mesh data happens while
\* the importer that owns the scene is alive.
C6_NoReadOfDeadScene ==
    \A k \in 1..Len(trace) : trace[k].ev = "deref" => trace[k].alive

\* C7 as claimed: after the load of a scene with at least one mesh, the mesh
\* list is the pre-order depth-first sequence of the tree's mesh references.
C7_MeshListIsPreOrder ==
    LoadSucceeded =>
        [i \in 1..Len(meshes) |-> meshes[i].mesh] = PreOrderRefs(scene, scene.mRootNode)

\* C7 amended: after the load of a scene with at least one mesh, the mesh
\* list is the pre-order depth-first sequence of the tree's mesh references
\* whose mesh record is not null: a node's own meshes in their listed order
\* before those of its descendants, sibling subtrees in the child order.
C7_MeshListIsPreOrderOfNonNull ==
    LoadSucceeded =>
        [i \in 1..Len(meshes) |-> meshes[i].mesh] =
            NonNull(PreOrderRefs(scene, scene.mRootNode))

\* the root, its first child and that child's child each contribute a mesh,
\* the children giving a different record than the root
C7_Witness ==
    /\ LoadSucceeded
    /\ Len(scene.nodes) = 4
    /\ Len(meshes) = 3
    /\ Len(scene.nodes[1].mMeshes) = 1
    /\ Len(scene.nodes[3].mMeshes) = 1
    /\ Len(scene.nodes[4].mMeshes) = 1
    /\ meshes[1].mesh # meshes[2].mesh
    /\ meshes[2].mesh # meshes[3].mesh

\* C8: when a drawMesh call on a mesh issues its indexed draw call, the
\* vertex and normal attributes are enabled and every texture-coordinate
\* attribute of the mesh is disabled, the existing ones bound to UV channel
\* 0; when the call returns, vertex and normal are disabled too.
C8_AttributesAroundDraw ==
    \A k \in 1..Len(trace) :
        LET e == trace[k]
        IN /\ e.ev = "glDrawElements" =>
                /\ e.call # NullPtr
                /\ ShaderAttrib("vertex") \in e.enabled
                /\ ShaderAttrib("normal") \in e.enabled
                /\ \A a \in Range(e.call.texCoordsAttributes) :
                      /\ a \notin e.enabled
                      /\ a \in VertexAttribs =>
                            /\ a \in DOMAIN e.pointers
                            /\ e.pointers[a].size = 2
                            /\ e.pointers[a].pointer.field = "mTextureCoords[0]"
                            /\ e.pointers[a].pointer.addr = e.call.mesh.addr
           /\ (e.ev = "return" /\ e.call # NullPtr) =>
                /\ ShaderAttrib("vertex") \notin e.enabled
                /\ ShaderAttrib("normal") \notin e.enabled
                /\ k > 1 /\ trace[k - 1].ev = "glDrawElements"

\* a draw call was issued for a mesh with two texture-coordinate attributes,
\* one of them unknown to the shader, and the drawMesh call has returned
C8_Witness ==
    \E k \in 1..Len(trace) :
        /\ trace[k].ev = "return"
        /\ trace[k].call # NullPtr
        /\ Len(trace[k].call.texCoordsAttributes) = 2
        /\ -1 \in Range(trace[k].call.texCoordsAttributes)
        /\ \E a \in Range(trace[k].call.texCoordsAttributes) : a \in VertexAttribs

\* C9: no drawMesh call returns with the wrap mode of the bound 2D texture
\* at clamp-to-edge, a call with a null mesh pointer included.
C9_WrapNeverLeftClamped ==
    \A k \in 1..Len(trace) :
        trace[k].ev = "return" =>
            /\ trace[k].wrapS # "GL_CLAMP_TO_EDGE"
            /\ trace[k].wrapT # "GL_CLAMP_TO_EDGE"

\* C10: the index sequence of every Mesh is the concatenation of the faces'
\* index lists of its mesh record, faces in their order and the indices of
\* a face in theirs; its length is the sum of the faces' index counts.
C10_IndicesAreFacesFlattened ==
    \A m \in 1..Len(meshes) :
        LET faces == meshes[m].mesh.mFaces
            indices == meshes[m].indices
        IN /\ Len(indices) = SumSeq([i \in 1..Len(faces) |-> Len(faces[i])])
           /\ \A i \in 1..Len(faces) : \A j \in 1..Len(faces[i]) :
                 indices[Offset(faces, i) + j] = faces[i][j]

\* a mesh of two faces with different index counts, the longer one first
C10_Witness ==
    \E m \in 1..Len(meshes) :
        /\ Len(meshes[m].mesh.mFaces) = 2
        /\ Len(meshes[m].mesh.mFaces[1]) = 3
        /\ Len(meshes[m].mesh.mFaces[2]) = 2
        /\ Len(meshes[m].indices) = 5

====
